---- MODULE Spec2Model ----
(***************************************************************************)
(* httpwr: handlers that return an error, the status-carrying Error type,  *)
(* the response writers OK / OKWithData, the default error handler, and    *)
(* the adapting combinator NewWithHandler (src/httpwr.go).                 *)
(*                                                                         *)
(* Two specifications share the variables:                                 *)
(*   SpecErr  the error functions (Wrap, Errorf, Error.Is, errors.Is)      *)
(*            applied to error values drawn from a bounded universe;       *)
(*   Spec     one invocation of the handler NewWithHandler returns: the    *)
(*            fallible handler's steps on the response target, its return, *)
(*            and the combinator's dispatch to the error-handling policy.  *)
(***************************************************************************)
EXTENDS Integers, Sequences, FiniteSets, TLC

VARIABLES
    cur,        \* SpecErr: the error value the functions are applied to
    call,       \* SpecErr: the last function application, with its result
    pc,         \* Spec: "handler" | "returned" | "done" | "panicked"
    policy,     \* Spec: the ErrorHandler given to NewWithHandler
    w,          \* Spec: the http.ResponseWriter of the invocation
    trace,      \* Spec: the calls the fallible handler made on w
    ret,        \* Spec: what next.ServeHTTP returned
    wAtReturn,  \* Spec: w as the fallible handler left it
    ehCalls     \* Spec: the invocations of the policy, <<[status, err]>>

vars == <<cur, call, pc, policy, w, trace, ret, wAtReturn, ehCalls>>

srvVars == <<pc, policy, w, trace, ret, wAtReturn, ehCalls>>

----------------------------------------------------------------------------
(* Bounds *)

\* nesting depth of the error values (wrappers around a leaf error)
MaxDepth == 2
\* calls the fallible handler makes on the target before its return statement
MaxHandlerOps == 1

----------------------------------------------------------------------------
(* Error values *)

\* the nil error interface value
Nil == [kind |-> "nil"]

\* errors.New(...) at package level: a pointer, compared by identity (id)
ErrBadRequest == [kind |-> "plain", id |-> 1, msg |-> "bad request"]

\* fmt.Errorf(format, args...) without %w: a fresh pointer on every call;
\* alloc tells two calls with the same text apart
FmtErrorf(format, arg, alloc) ==
    [kind |-> "plain", id |-> alloc, msg |-> format \o ToString(arg)]

\* an error whose dynamic type is not comparable (a slice type with an
\* Error method, such as a list of validation failures); it has no Is method
ErrSlice == [kind |-> "slice", msg |-> "validation failed"]

\* http.StatusInternalServerError
StatusInternalServerError == 500

\* the status codes handlers attach to errors
ErrStatuses == {400, 409}

\* Error{Status: status, Err: err}: the struct literal; err may be Nil
ErrorLit(status, err) == [kind |-> "Error", Status |-> status, Err |-> err]

\* var herr Error
ZeroError == ErrorLit(0, Nil)

RECURSIVE ErrText(_)
\* err.Error(): [panic, text]. Error.Error() calls e.Err.Error(), a nil
\* dereference when Err is nil.
ErrText(e) ==
    IF e.kind = "Error"
    THEN IF e.Err = Nil
         THEN [panic |-> TRUE, text |-> ""]
         ELSE ErrText(e.Err)
    ELSE [panic |-> FALSE, text |-> e.msg]

\* fmt.Errorf("ctx: %w", err): a wrapper with an Unwrap method; its text is
\* fixed when it is built (fmt recovers a panicking Error method)
FmtErrorfW(err) ==
    LET t == ErrText(err)
    IN  [kind  |-> "wrapf",
         msg   |-> "ctx: " \o (IF t.panic
                               THEN "%!w(PANIC=Error method: runtime error: invalid memory address or nil pointer dereference)"
                               ELSE t.text),
         inner |-> err]

\* Unwrap(): only the fmt wrapper has one; Error has none
Unwrap(e) == IF e.kind = "wrapf" THEN e.inner ELSE Nil

\* a faulty Wrap: a fixed status takes the place of the given one
Wrap_WrongStatus(status, err) ==
    IF err = Nil THEN Nil ELSE ErrorLit(StatusInternalServerError, err)

\* Wrap(status, err)
Wrap(status, err) ==
    IF err = Nil
    THEN Nil
    ELSE ErrorLit(status, err)

\* Errorf(status, format, args...)
Errorf(status, format, arg, alloc) == Wrap(status, FmtErrorf(format, arg, alloc))

\* reflect's Comparable() of the dynamic type of a non-nil error
Comparable(e) == e.kind # "slice"

B3(b) == IF b THEN "T" ELSE "F"

RECURSIVE GoEq(_, _)
\* a == b on two error interface values: "T", "F", or "P" (the run-time
\* panic on two values of the same uncomparable dynamic type)
GoEq(a, b) ==
    IF a = Nil \/ b = Nil THEN B3(a = b)
    ELSE IF a.kind # b.kind THEN "F"
    ELSE IF a.kind = "slice" THEN "P"
    ELSE IF a.kind = "Error"
         THEN IF a.Status # b.Status THEN "F" ELSE GoEq(a.Err, b.Err)
    ELSE B3(a = b)

RECURSIVE errorsIs(_, _)
RECURSIVE isWalk(_, _, _)

\* a faulty Error.Is: the kind-level match compares the payloads
Error_Is_Payload(e, err) ==
    IF err # Nil /\ err.kind = "Error"
    THEN B3(e = err)
    ELSE errorsIs(e.Err, err)

\* a faulty Error.Is: everything matches
Error_Is_Always(e, err) == "T"

\* (e Error) Is(err error) bool
Error_Is(e, err) ==
    IF err # Nil /\ err.kind = "Error"
    THEN "T"
    ELSE errorsIs(e.Err, err)

\* errors.is: the walk down the Unwrap chain
isWalk(err, target, targetComparable) ==
    LET eq == IF targetComparable THEN GoEq(err, target) ELSE "F"
    IN  IF eq # "F" THEN eq
        ELSE LET m == IF err.kind = "Error" THEN Error_Is(err, target) ELSE "F"
             IN  IF m # "F" THEN m
                 ELSE IF Unwrap(err) = Nil THEN "F"
                 ELSE isWalk(Unwrap(err), target, targetComparable)

\* errors.Is(err, target)
errorsIs(err, target) ==
    IF err = Nil \/ target = Nil
    THEN B3(err = target)
    ELSE isWalk(err, target, Comparable(target))

RECURSIVE errorsAs(_)

\* errors.As(err, &herr) with herr of type Error: [ok, herr]
errorsAs(err) ==
    IF err = Nil THEN [ok |-> FALSE, herr |-> ZeroError]
    ELSE IF err.kind = "Error" THEN [ok |-> TRUE, herr |-> err]
    ELSE IF Unwrap(err) = Nil THEN [ok |-> FALSE, herr |-> ZeroError]
    ELSE errorsAs(Unwrap(err))

\* the leaf errors a handler starts from
Leaves ==
    { ErrBadRequest,
      FmtErrorf("foo bar ", 10, 2),
      FmtErrorf("foo bar ", 10, 3),
      ErrSlice }

RECURSIVE ErrsUpTo(_)
\* the non-nil errors built from the leaves with at most d wrappers
ErrsUpTo(d) ==
    IF d = 0 THEN Leaves
    ELSE LET P == ErrsUpTo(d - 1)
         IN  P \cup { ErrorLit(s, e) : s \in ErrStatuses, e \in P \cup {Nil} }
               \cup { FmtErrorfW(e) : e \in P }

Universe == ErrsUpTo(MaxDepth)

\* the targets errors are classified against: the universe and Error{}
Targets == Universe \cup {ZeroError}

RECURSIVE Depth(_)
\* the number of wrappers around the leaf of an error value
Depth(e) ==
    IF e = Nil THEN 0
    ELSE IF e.kind = "Error" THEN 1 + Depth(e.Err)
    ELSE IF e.kind = "wrapf" THEN 1 + Depth(e.inner)
    ELSE 0

----------------------------------------------------------------------------
(* SpecErr: the error functions applied to bounded inputs *)

NoCall == [fn |-> "none"]

\* err := <a leaf error>
PickLeaf(e) ==
    /\ cur = Nil
    /\ cur' = e
    /\ call' = NoCall
    /\ UNCHANGED srvVars

\* err = Wrap(s, err)
DoWrap(s) ==
    /\ Depth(cur) < MaxDepth
    /\ cur' = Wrap(s, cur)
    /\ call' = [fn |-> "Wrap", status |-> s, in |-> cur, out |-> Wrap(s, cur)]
    /\ UNCHANGED srvVars

\* err = Error{Status: s, Err: err}
DoLiteral(s) ==
    /\ Depth(cur) < MaxDepth
    /\ cur' = ErrorLit(s, cur)
    /\ call' = NoCall
    /\ UNCHANGED srvVars

\* err = fmt.Errorf("ctx: %w", err)
DoFmtErrorfW ==
    /\ cur # Nil
    /\ Depth(cur) < MaxDepth
    /\ cur' = FmtErrorfW(cur)
    /\ call' = NoCall
    /\ UNCHANGED srvVars

\* err = Errorf(s, "foo bar %d", n)
DoErrorf(s, n) ==
    /\ cur' = Errorf(s, "foo bar ", n, 2)
    /\ call' = [fn |-> "Errorf", status |-> s, arg |-> n,
                out |-> Errorf(s, "foo bar ", n, 2)]
    /\ UNCHANGED srvVars

\* the classification calls are made on an error once it is built, one per
\* error value reached
Classified == call.fn \in {"Is", "errors.Is"}

\* err.Is(t), err an Error
DoIs(t) ==
    /\ ~Classified
    /\ cur # Nil
    /\ cur.kind = "Error"
    /\ call' = [fn |-> "Is", x |-> cur, t |-> t, res |-> Error_Is(cur, t)]
    /\ UNCHANGED <<cur, pc, policy, w, trace, ret, wAtReturn, ehCalls>>

\* errors.Is(err, t)
DoErrorsIs(t) ==
    /\ ~Classified
    /\ cur # Nil
    /\ call' = [fn |-> "errors.Is", err |-> cur, t |-> t, res |-> errorsIs(cur, t)]
    /\ UNCHANGED <<cur, pc, policy, w, trace, ret, wAtReturn, ehCalls>>

\* httptest.NewRecorder(): nothing written, the status defaults to 200
NewRecorder ==
    [header |-> "", wroteHeader |-> FALSE, code |-> 200,
     snapHeader |-> "", body |-> <<>>, log |-> <<>>]

InitSrv ==
    /\ pc = "handler"
    /\ w = NewRecorder
    /\ trace = <<>>
    /\ ret = Nil
    /\ wAtReturn = w
    /\ ehCalls = <<>>

InitErr ==
    /\ cur = Nil
    /\ call = NoCall
    /\ policy = "default"
    /\ InitSrv

NextErr ==
    \/ \E e \in Leaves : PickLeaf(e)
    \/ \E s \in ErrStatuses : DoWrap(s)
    \/ \E s \in ErrStatuses : DoLiteral(s)
    \/ DoFmtErrorfW
    \/ \E s \in ErrStatuses : DoErrorf(s, 10)
    \/ \E t \in Targets : DoIs(t)
    \/ \E t \in Targets : DoErrorsIs(t)

SpecErr == InitErr /\ [][NextErr]_vars

----------------------------------------------------------------------------
(* The response target: http.ResponseWriter as net/http and httptest keep it *)

ContentTypeJSON == "application/json"

\* w.Header().Set("Content-Type", v): changes the header map; headers already
\* sent with the status line (snapHeader) are not touched
HeaderSet(t, v) ==
    [t EXCEPT !.header = v, !.log = Append(@, "Header.Set")]

\* w.WriteHeader(code): the first call commits the status line together with
\* the headers set so far; a later call is superfluous and changes nothing
WriteHeader(t, code) ==
    IF t.wroteHeader
    THEN [t EXCEPT !.log = Append(@, "WriteHeader")]
    ELSE [t EXCEPT !.wroteHeader = TRUE, !.code = code,
                   !.snapHeader = t.header, !.log = Append(@, "WriteHeader")]

\* w.Write(doc): commits status 200 first when no status line was written
Write(t, doc) ==
    LET c == IF t.wroteHeader THEN t
             ELSE [t EXCEPT !.wroteHeader = TRUE, !.snapHeader = t.header]
    IN  [c EXCEPT !.body = Append(@, doc), !.log = Append(@, "Write")]

----------------------------------------------------------------------------
(* JSON envelopes *)

\* the data maps (type M) handlers pass: members <<key, Go type, value>>
DataGood == { <<"some", "string", "data">>, <<"age", "int", "23">> }
DataBad  == { <<"ch", "chan", "">> }
Datas == {DataGood, DataBad}

\* json: a map with a channel value cannot be encoded
Encodable(data) == \A m \in data : m[2] # "chan"

\* json.Marshal of a struct value, by its json tags: [ok, doc]
Marshal(v) ==
    IF v.type = "errorResponse"
    THEN [ok |-> TRUE, doc |-> [status |-> v.Status, error |-> v.Err]]
    ELSE IF v.type = "r"
    THEN [ok |-> TRUE, doc |-> [status |-> v.Status, msg |-> v.Msg]]
    ELSE IF Encodable(v.Data)
    THEN [ok |-> TRUE,
          doc |-> [status |-> v.Status, msg |-> v.Msg,
                   data |-> { <<m[1], m[3]>> : m \in v.Data }]]
    ELSE [ok |-> FALSE, doc |-> [status |-> 0]]

\* _ = json.NewEncoder(w).Encode(v): one Write of the document, or nothing
\* when v cannot be encoded; the error is dropped
Encode(t, v) ==
    LET m == Marshal(v)
    IN  IF m.ok THEN Write(t, m.doc) ELSE t

----------------------------------------------------------------------------
(* The response writers and the default policy *)

\* DefaultErrorHandler(w, status, err): [w, panic]. err.Error() is evaluated
\* after WriteHeader and Header().Set and panics on a nil err (and on an
\* Error whose own Err is nil)
DefaultErrorHandler(t, status, err) ==
    LET t1 == WriteHeader(t, status)
        t2 == HeaderSet(t1, ContentTypeJSON)
    IN  IF err = Nil \/ ErrText(err).panic
        THEN [w |-> t2, panic |-> TRUE]
        ELSE [w |-> Encode(t2, [type |-> "errorResponse", Status |-> status,
                                Err |-> ErrText(err).text]),
              panic |-> FALSE]

\* OK(w, status, msg): [w, ret]
OK(t, status, msg) ==
    LET t1 == WriteHeader(t, status)
        t2 == HeaderSet(t1, ContentTypeJSON)
    IN  [w |-> Encode(t2, [type |-> "r", Status |-> status, Msg |-> msg]),
         ret |-> Nil]

\* a faulty OKWithData: the encoder's error is returned
OKWithData_ReturnsEncodeError(t, status, msg, data) ==
    LET t1 == WriteHeader(t, status)
        t2 == HeaderSet(t1, ContentTypeJSON)
        v  == [type |-> "rData", Status |-> status, Msg |-> msg, Data |-> data]
    IN  [w |-> Encode(t2, v),
         ret |-> IF Marshal(v).ok THEN Nil
                 ELSE [kind |-> "plain", id |-> 9,
                       msg |-> "json: unsupported type: chan int"]]

\* OKWithData(w, status, msg, data): [w, ret]
OKWithData(t, status, msg, data) ==
    LET t1 == WriteHeader(t, status)
        t2 == HeaderSet(t1, ContentTypeJSON)
    IN  [w |-> Encode(t2, [type |-> "rData", Status |-> status, Msg |-> msg,
                           Data |-> data]),
         ret |-> Nil]

----------------------------------------------------------------------------
(* The adapting combinator *)

\* eh(w, status, err): the policy given to NewWithHandler. "default" is
\* DefaultErrorHandler (New, NewF); "custom" is a caller's policy that only
\* records its arguments
CallPolicy(eh, t, status, err) ==
    IF eh = "default"
    THEN LET r == DefaultErrorHandler(t, status, err)
         IN  [w |-> r.w, calls |-> <<[status |-> status, err |-> err]>>,
              pc |-> IF r.panic THEN "panicked" ELSE "done"]
    ELSE [w |-> t, calls |-> <<[status |-> status, err |-> err]>>, pc |-> "done"]

\* a faulty NewWithHandler: no nil check on the handler's error
NewWithHandler_NoNilCheck(err, t, eh) ==
    LET herr == errorsAs(err)
    IN  IF herr.ok
        THEN CallPolicy(eh, t, herr.herr.Status, herr.herr.Err)
        ELSE CallPolicy(eh, t, StatusInternalServerError, err)

\* a faulty NewWithHandler: the policy gets the error as returned
NewWithHandler_PassesErr(err, t, eh) ==
    IF err = Nil
    THEN [w |-> t, calls |-> <<>>, pc |-> "done"]
    ELSE LET herr == errorsAs(err)
         IN  IF herr.ok
             THEN CallPolicy(eh, t, herr.herr.Status, err)
             ELSE CallPolicy(eh, t, StatusInternalServerError, err)

\* a faulty NewWithHandler: the combinator writes the status itself
NewWithHandler_WritesStatus(err, t, eh) ==
    IF err = Nil
    THEN [w |-> t, calls |-> <<>>, pc |-> "done"]
    ELSE LET herr == errorsAs(err)
             t1 == WriteHeader(t, StatusInternalServerError)
         IN  IF herr.ok
             THEN CallPolicy(eh, t1, herr.herr.Status, herr.herr.Err)
             ELSE CallPolicy(eh, t1, StatusInternalServerError, err)

\* NewWithHandler(next, eh), after err := next.ServeHTTP(w, r): [w, calls, pc]
NewWithHandler(err, t, eh) ==
    IF err = Nil
    THEN [w |-> t, calls |-> <<>>, pc |-> "done"]
    ELSE LET herr == errorsAs(err)
         IN  IF herr.ok
             THEN CallPolicy(eh, t, herr.herr.Status, herr.herr.Err)
             ELSE CallPolicy(eh, t, StatusInternalServerError, err)

----------------------------------------------------------------------------
(* Spec: one invocation of the adapted handler *)

\* the statuses and messages handlers pass to OK / OKWithData / WriteHeader
OKStatuses == {200, 201}
Msgs == {"OK", "some msg"}

\* NewWithHandler(next, eh) or New(next) was called; the request arrives
Init ==
    /\ cur = Nil
    /\ call = NoCall
    /\ policy \in {"default", "custom"}
    /\ InitSrv

\* the fallible handler calls OK and goes on (the result is not returned)
HandlerOK(s, msg) ==
    /\ pc = "handler"
    /\ Len(trace) < MaxHandlerOps
    /\ w' = OK(w, s, msg).w
    /\ trace' = Append(trace, [op |-> "OK", status |-> s, msg |-> msg])
    /\ UNCHANGED <<cur, call, pc, policy, ret, wAtReturn, ehCalls>>

\* the fallible handler calls OKWithData and goes on
HandlerOKWithData(s, msg, data) ==
    /\ pc = "handler"
    /\ Len(trace) < MaxHandlerOps
    /\ w' = OKWithData(w, s, msg, data).w
    /\ trace' = Append(trace, [op |-> "OKWithData", status |-> s, msg |-> msg,
                               data |-> data])
    /\ UNCHANGED <<cur, call, pc, policy, ret, wAtReturn, ehCalls>>

\* the fallible handler writes the status line itself
HandlerWriteHeader(s) ==
    /\ pc = "handler"
    /\ Len(trace) < MaxHandlerOps
    /\ w' = WriteHeader(w, s)
    /\ trace' = Append(trace, [op |-> "WriteHeader", status |-> s])
    /\ UNCHANGED <<cur, call, pc, policy, ret, wAtReturn, ehCalls>>

\* return OK(w, s, msg)
HandlerReturnOK(s, msg) ==
    /\ pc = "handler"
    /\ w' = OK(w, s, msg).w
    /\ ret' = OK(w, s, msg).ret
    /\ wAtReturn' = w'
    /\ trace' = Append(trace, [op |-> "return OK", status |-> s, msg |-> msg])
    /\ pc' = "returned"
    /\ UNCHANGED <<cur, call, policy, ehCalls>>

\* return OKWithData(w, s, msg, data)
HandlerReturnOKWithData(s, msg, data) ==
    /\ pc = "handler"
    /\ w' = OKWithData(w, s, msg, data).w
    /\ ret' = OKWithData(w, s, msg, data).ret
    /\ wAtReturn' = w'
    /\ trace' = Append(trace, [op |-> "return OKWithData", status |-> s,
                               msg |-> msg, data |-> data])
    /\ pc' = "returned"
    /\ UNCHANGED <<cur, call, policy, ehCalls>>

\* return e: nil or an error value
HandlerReturn(e) ==
    /\ pc = "handler"
    /\ ret' = e
    /\ wAtReturn' = w
    /\ pc' = "returned"
    /\ UNCHANGED <<cur, call, policy, w, trace, ehCalls>>

\* the combinator after next.ServeHTTP returned: the nil check, errors.As and
\* the call of the policy
Dispatch ==
    /\ pc = "returned"
    /\ LET r == NewWithHandler(ret, w, policy)
       IN  /\ w' = r.w
           /\ ehCalls' = r.calls
           /\ pc' = r.pc
    /\ UNCHANGED <<cur, call, policy, trace, ret, wAtReturn>>

Next ==
    \/ \E s \in OKStatuses, m \in Msgs : HandlerOK(s, m)
    \/ \E s \in OKStatuses, m \in Msgs, d \in Datas : HandlerOKWithData(s, m, d)
    \/ \E s \in OKStatuses : HandlerWriteHeader(s)
    \/ \E s \in OKStatuses, m \in Msgs : HandlerReturnOK(s, m)
    \/ \E s \in OKStatuses, m \in Msgs, d \in Datas : HandlerReturnOKWithData(s, m, d)
    \/ \E e \in Universe \cup {Nil} : HandlerReturn(e)
    \/ Dispatch

Spec == Init /\ [][Next]_vars

----------------------------------------------------------------------------
(* Properties *)

\* the invocation of the adapted handler is over
Finished == pc \in {"done", "panicked"}

\* how many times op was called on the target
Calls(t, op) == Cardinality({ i \in DOMAIN t.log : t.log[i] = op })

RECURSIVE ChainOf(_)
\* the unwrap chain of a non-nil error: the error, then what it unwraps to
ChainOf(e) ==
    IF e.kind = "wrapf" THEN <<e>> \o ChainOf(e.inner) ELSE <<e>>

RECURSIVE Inside(_)
\* the errors an error value holds, directly or through other errors
Inside(e) ==
    IF e = Nil THEN {}
    ELSE IF e.kind = "Error" THEN {e.Err} \cup Inside(e.Err)
    ELSE IF e.kind = "wrapf" THEN {e.inner} \cup Inside(e.inner)
    ELSE {}

\* a wraps b
Wraps(a, b) == b \in Inside(a)

\* C1: when next returns a non-nil error, the policy is invoked exactly once,
\* with the status and cause of the first Error of the unwrap chain, or with
\* 500 and the error itself when the chain holds no Error.
C1_PolicyArguments ==
    (Finished /\ ret # Nil) =>
        /\ Len(ehCalls) = 1
        /\ LET c == ChainOf(ret)
               I == { i \in DOMAIN c : c[i].kind = "Error" }
           IN  IF I # {}
               THEN LET first == c[CHOOSE i \in I : \A j \in I : i <= j]
                    IN  ehCalls[1] = [status |-> first.Status, err |-> first.Err]
               ELSE ehCalls[1] = [status |-> 500, err |-> ret]

\* C1 witness: Wrap(400, Wrap(409, e)) was returned and the policy was called
\* with 400 and the inner wrapped error
C1_Witness ==
    /\ pc = "done"
    /\ ret = ErrorLit(400, ErrorLit(409, ErrBadRequest))
    /\ ehCalls = <<[status |-> 400, err |-> ErrorLit(409, ErrBadRequest)]>>

\* C2 as claimed: Wrap(s, nil) is nil; for every non-nil e, Wrap(s, e) is an
\* Error with status s and cause e, found by errors.As, and
\* errors.Is(Wrap(s, e), e) holds.
C2_WrapRecoversEveryError ==
    call.fn = "Wrap" =>
        IF call.in = Nil
        THEN call.out = Nil
        ELSE /\ call.out # Nil
             /\ call.out.kind = "Error"
             /\ call.out.Status = call.status
             /\ call.out.Err = call.in
             /\ errorsAs(call.out) = [ok |-> TRUE, herr |-> call.out]
             /\ errorsIs(call.out, call.in) = "T"

\* C2 amended: as above, with errors.Is(Wrap(s, e), e) holding for every e
\* whose dynamic type is comparable.
C2_WrapRecoversComparable ==
    call.fn = "Wrap" =>
        IF call.in = Nil
        THEN call.out = Nil
        ELSE /\ call.out # Nil
             /\ call.out.kind = "Error"
             /\ call.out.Status = call.status
             /\ call.out.Err = call.in
             /\ errorsAs(call.out) = [ok |-> TRUE, herr |-> call.out]
             /\ Comparable(call.in) => errorsIs(call.out, call.in) = "T"

\* C2 witness: a non-nil comparable error was wrapped and is recovered
C2_Witness ==
    /\ call.fn = "Wrap"
    /\ call.in = ErrBadRequest
    /\ call.status = 409
    /\ call.out.Err = ErrBadRequest
    /\ errorsIs(call.out, ErrBadRequest) = "T"

\* C3 as claimed: on the error path the status line is written at most once
\* and at most one envelope body is written, whatever the fallible handler
\* did on the target before it returned the error.
C3_OneWriteAnyHandler ==
    (Finished /\ policy = "default" /\ ret # Nil) =>
        /\ Calls(w, "WriteHeader") <= 1
        /\ Len(w.body) <= 1

\* C3 amended: on the error path, when the fallible handler did nothing on
\* the target before it returned the error, the status line is written at
\* most once and at most one envelope body is written.
C3_OneWriteQuietHandler ==
    (Finished /\ policy = "default" /\ ret # Nil /\ trace = <<>>) =>
        /\ Calls(w, "WriteHeader") <= 1
        /\ Len(w.body) <= 1

\* C3 witness: a quiet handler returned an error and the default policy wrote
\* one status line and one envelope
C3_Witness ==
    /\ pc = "done"
    /\ policy = "default"
    /\ ret = ErrBadRequest
    /\ trace = <<>>
    /\ Calls(w, "WriteHeader") = 1
    /\ Len(w.body) = 1

\* C4: with the default policy, every invocation whose handler returns a
\* non-nil error ends with a body that is one error envelope, whose status is
\* the status of the committed status line and whose error is the text of the
\* error given to the policy.
C4_ErrorEnvelopeMatchesStatusLine ==
    (Finished /\ policy = "default" /\ ret # Nil) =>
        /\ pc = "done"
        /\ Len(ehCalls) = 1
        /\ ehCalls[1].err # Nil
        /\ ~ErrText(ehCalls[1].err).panic
        /\ w.body = <<[status |-> w.code,
                       error  |-> ErrText(ehCalls[1].err).text]>>

\* the target after one writer call in the claimed order: Content-Type set,
\* then the status line, then the body; the headers sent carry the type
InClaimedOrder(t) ==
    /\ Len(t.log) >= 2
    /\ t.log[1] = "Header.Set"
    /\ t.log[2] = "WriteHeader"
    /\ Len(t.log) = 3 => t.log[3] = "Write"
    /\ t.snapHeader = "application/json"

\* C5: OK, OKWithData and DefaultErrorHandler set Content-Type, then write
\* the status line, then the body, so the headers sent with the status line
\* hold Content-Type = application/json.
C5_ContentTypeBeforeStatusLine ==
    /\ ( /\ pc \in {"handler", "returned"}
         /\ Len(trace) = 1
         /\ trace[1].op \in {"OK", "OKWithData", "return OK", "return OKWithData"} )
       => InClaimedOrder(w)
    /\ (pc = "done" /\ policy = "default" /\ ret # Nil /\ trace = <<>>)
       => InClaimedOrder(w)

\* C6: when the fallible handler returns nil, the policy is not invoked and
\* the target is as the handler left it; a handler that wrote nothing leaves
\* status 200 and an empty body.
C6_NoErrorLeavesTarget ==
    (Finished /\ ret = Nil) =>
        /\ pc = "done"
        /\ ehCalls = <<>>
        /\ w = wAtReturn
        /\ trace = <<>> =>
             /\ ~w.wroteHeader
             /\ w.code = 200
             /\ w.body = <<>>
             /\ w.log = <<>>

\* C6 witness: a handler wrote nothing, returned nil, and the invocation ended
C6_Witness ==
    /\ pc = "done"
    /\ ret = Nil
    /\ trace = <<>>
    /\ w.code = 200
    /\ w.body = <<>>

\* C7: x.Is(t) is true for every t of the Error kind, whatever the payloads,
\* and equals errors.Is(x.Err, t) for every other t; so
\* Errorf(409, "foo bar %d", 10) matches a separately built Error with status
\* 409 and the same message.
C7_IsByKind ==
    call.fn = "Is" =>
        IF call.t.kind = "Error"
        THEN call.res = "T"
        ELSE call.res = errorsIs(call.x.Err, call.t)

\* C7 witness: Errorf(409, "foo bar %d", 10) was matched against a separately
\* built Error of the same status and text, which is another value
C7_Witness ==
    /\ call.fn = "Is"
    /\ call.x = Errorf(409, "foo bar ", 10, 2)
    /\ call.t = ErrorLit(409, FmtErrorf("foo bar ", 10, 3))
    /\ call.x # call.t
    /\ ErrText(call.x) = ErrText(call.t)
    /\ call.res = "T"

\* the last call was errors.Is(Wrap(s, e1), e2) with e1 # e2 and neither
\* wrapping the other
UnrelatedIs ==
    /\ call.fn = "errors.Is"
    /\ call.err.kind = "Error"
    /\ call.err.Err # Nil
    /\ call.err = Wrap(call.err.Status, call.err.Err)
    /\ call.err.Err # call.t
    /\ ~Wraps(call.err.Err, call.t)
    /\ ~Wraps(call.t, call.err.Err)

\* C8 as claimed: for all e1 # e2, neither wrapping the other,
\* errors.Is(Wrap(s, e1), e2) is false.
C8_UnrelatedNeverMatches ==
    UnrelatedIs => call.res = "F"

\* C8 amended: for all e1 # e2, neither wrapping the other, and e2 not of the
\* Error kind, errors.Is(Wrap(s, e1), e2) is false.
C8_UnrelatedOtherKindNeverMatches ==
    (UnrelatedIs /\ call.t.kind # "Error") => call.res = "F"

\* C8 witness: a wrapped error was checked against an unrelated plain error
C8_Witness ==
    /\ UnrelatedIs
    /\ call.err = ErrorLit(409, ErrBadRequest)
    /\ call.t = FmtErrorf("foo bar ", 10, 3)
    /\ call.res = "F"

\* the handler's only call on the target was return OK(...) or
\* return OKWithData(...)
ReturnedWriter ==
    /\ Finished
    /\ Len(trace) = 1
    /\ trace[1].op \in {"return OK", "return OKWithData"}

\* the success envelope of the handler's writer call
SuccessEnvelope(c) ==
    IF c.op = "return OK"
    THEN [status |-> c.status, msg |-> c.msg]
    ELSE [status |-> c.status, msg |-> c.msg,
          data |-> { <<m[1], m[3]>> : m \in c.data }]

\* C9 as claimed: a handler that returns OK(w, s, msg) or
\* OKWithData(w, s, msg, data) gets no error, the policy is not invoked, and
\* the response has status line s and the success envelope, also when the
\* envelope cannot be serialized.
C9_WriterAlwaysSendsEnvelope ==
    ReturnedWriter =>
        /\ ret = Nil
        /\ pc = "done"
        /\ ehCalls = <<>>
        /\ Calls(w, "WriteHeader") = 1
        /\ w.code = trace[1].status
        /\ w.body = <<SuccessEnvelope(trace[1])>>

\* C9 amended: as above, but the body is the success envelope when the
\* envelope can be serialized and empty when it cannot.
C9_WriterSendsEnvelopeIfEncodable ==
    ReturnedWriter =>
        /\ ret = Nil
        /\ pc = "done"
        /\ ehCalls = <<>>
        /\ Calls(w, "WriteHeader") = 1
        /\ w.code = trace[1].status
        /\ w.body = IF trace[1].op = "return OK"
                       \/ \A m \in trace[1].data : m[2] # "chan"
                    THEN <<SuccessEnvelope(trace[1])>>
                    ELSE <<>>

\* C9 witness: return OKWithData(w, 201, msg, data) with data that cannot be
\* serialized: status line 201, no body, no policy call
C9_Witness ==
    /\ ReturnedWriter
    /\ trace[1].op = "return OKWithData"
    /\ trace[1].data = DataBad
    /\ w.code = 201
    /\ w.body = <<>>
    /\ ehCalls = <<>>

\* C10: the error the combinator passes to the policy is never nil, and the
\* invocation ends without a fault.
C10_PolicyErrorNeverNil ==
    /\ \A i \in DOMAIN ehCalls : ehCalls[i].err # Nil
    /\ pc # "panicked"

====
